---- MODULE Spec2Model ----
(***************************************************************************)
(* A model of the lottie-rs document decoder (crates/model/src/lib.rs).    *)
(*                                                                         *)
(* The decoder is a set of pure conversions driven by serde.  Each         *)
(* conversion is an operator; the state machine is a caller that picks an  *)
(* input from a bounded set, applies one conversion and records the input  *)
(* and the result (op, arg, ret), then returns to idle.  Model::from_reader*)
(* is modelled as the reader it is: it consumes the input node by node and *)
(* ends with Ok(document) or Err(first violation).                         *)
(*                                                                         *)
(* JSON values are modelled as follows: an optional key is a sequence of   *)
(* length 0 (absent) or 1 (present); numbers are small naturals; the `k`   *)
(* member of an animated property is a tagged record (plain value or list  *)
(* of keyframe records).                                                   *)
(***************************************************************************)
EXTENDS Integers, Sequences, FiniteSets, TLC

VARIABLES pc, op, arg, ret, rd

\* The frame capture: the copier's flag, its buffer and its event, the
\* position of the render thread in ImageCopyDriver::run and of the main
\* thread in receive_images, the last submission and the frames received.
VARIABLES unmapped, buffer, unmap_event, dpc, rpc, submitted, rframe

dvars == <<pc, op, arg, ret, rd>>

cvars == <<unmapped, buffer, unmap_event, dpc, rpc, submitted, rframe>>

vars == <<pc, op, arg, ret, rd, unmapped, buffer, unmap_event, dpc, rpc, submitted, rframe>>

(***************************************************************************)
(* Bounds of the model.                                                    *)
(***************************************************************************)
MaxLen == 3      \* longest keyframe list in a source property
MaxVal == 1      \* property values are 0..MaxVal
MaxFrame == 1    \* frame numbers are 0..MaxFrame
MaxInt == 4      \* source integers are 0..MaxInt
MaxId == 1       \* in-memory identifiers are 0..MaxId
MaxNodes == 4    \* nodes (layers, shapes) one input document holds
MaxDepth == 2    \* nesting depth of groups below a layer

Vals == 0..MaxVal
Frames == 0..MaxFrame
Ints == 0..MaxInt
Ids == 0..MaxId

\* An optional JSON key or Option<T>: <<>> is absent/None, <<x>> is present/Some(x).
Opt(S) == {<<>>} \cup {<<x>> : x \in S}

\* Result<T, Error>
Ok(v) == [ok |-> TRUE, val |-> v, err |-> ""]
Err(e) == [ok |-> FALSE, val |-> <<>>, err |-> e]

\* Sequences over S of length lo..hi.
SeqsOf(S, lo, hi) == UNION {[1..n -> S] : n \in lo..hi}

(***************************************************************************)
(* Primitive coercions (helpers module).                                   *)
(***************************************************************************)
bool_from_int(n) == n # 0

int_from_bool(b) == IF b THEN 1 ELSE 0

\* f32::default(), the value type's default.
DefaultT == 0

(***************************************************************************)
(* KeyFrame<T>                                                             *)
(***************************************************************************)
\* A keyframe record of the source: {s: value, t: frame}; `s` is required,
\* `t` has a serde default.
KeyFrameSrc == [s : Opt(Vals), t : Opt(Frames)]

KeyFrame_default ==
    [start_value |-> DefaultT, end_value |-> DefaultT,
     start_frame |-> 0, end_frame |-> 0]

KeyFrame_from_value_Mut(value) ==
    [start_value |-> value, end_value |-> DefaultT,
     start_frame |-> 0, end_frame |-> 0]

KeyFrame_from_value(value) ==
    [start_value |-> value, end_value |-> value,
     start_frame |-> 0, end_frame |-> 0]

KeyFrameDecode_Mut(rec) ==
    LET t == IF rec.t = <<>> THEN 0 ELSE rec.t[1]
    IN [start_value |-> rec.s[1], end_value |-> DefaultT,
        start_frame |-> t, end_frame |-> t]

\* #[derive(Deserialize)] of KeyFrame: `s` -> start_value, `t` -> start_frame
\* (default 0), end_value and end_frame skipped, hence their defaults.
\* Applied to records that carry `s`.
KeyFrameDecode(rec) ==
    [start_value |-> rec.s[1], end_value |-> DefaultT,
     start_frame |-> IF rec.t = <<>> THEN 0 ELSE rec.t[1], end_frame |-> 0]

\* #[derive(Serialize)] of KeyFrame: end_value and end_frame are skipped.
KeyFrameEncode(kf) == [s |-> <<kf.start_value>>, t |-> <<kf.start_frame>>]

(***************************************************************************)
(* Animated<T>                                                             *)
(***************************************************************************)
PlainK(v) == [kind |-> "plain", v |-> v, ks |-> <<>>]
ListK(ks) == [kind |-> "list", v |-> 0, ks |-> ks]

\* The end-value / end-frame backfill pass: from the last element backward,
\* element i (i < n) takes its end from element i+1's start.
RECURSIVE BackfillFrom(_, _)
BackfillFrom(kfs, i) ==
    IF i < 1 THEN kfs
    ELSE BackfillFrom(
           [kfs EXCEPT ![i].end_value = kfs[i + 1].start_value,
                       ![i].end_frame = kfs[i + 1].start_frame],
           i - 1)

Backfill(kfs) == BackfillFrom(kfs, Len(kfs) - 1)

\* deserialize_with = "keyframes_from_array"
keyframes_from_array(flag, k) ==
    IF ~flag
    THEN IF k.kind = "plain" THEN Ok(<<KeyFrame_from_value(k.v)>>)
         ELSE IF Len(k.ks) # 1 THEN Err("schema")
         ELSE IF k.ks[1].s = <<>> THEN Err("malformed_keyframes")
         ELSE Ok(<<KeyFrame_from_value(k.ks[1].s[1])>>)
    ELSE IF k.kind = "plain" THEN Err("schema")
         ELSE IF Len(k.ks) = 0 THEN Err("malformed_keyframes")
         ELSE IF \E i \in 1..Len(k.ks) : k.ks[i].s = <<>>
              THEN Err("malformed_keyframes")
         ELSE Ok(Backfill([i \in 1..Len(k.ks) |-> KeyFrameDecode(k.ks[i])]))

\* serialize_with = "array_from_keyframes": the inverse encoding.
array_from_keyframes(flag, kfs) ==
    IF ~flag THEN PlainK(kfs[1].start_value)
    ELSE ListK([i \in 1..Len(kfs) |-> KeyFrameEncode(kfs[i])])

\* The `a` member: deserialize_with = "bool_from_int", default (false).
AnimatedFlagDecode(a) == IF a = <<>> THEN FALSE ELSE bool_from_int(a[1])

\* #[derive(Deserialize)] of Animated<T>
AnimatedDecode(src) ==
    LET flag == AnimatedFlagDecode(src.a)
        kfs == keyframes_from_array(flag, src.k)
    IN IF kfs.ok THEN Ok([animated |-> flag, keyframes |-> kfs.val])
       ELSE Err(kfs.err)

\* #[derive(Serialize)] of Animated<T>
AnimatedEncode(an) ==
    [a |-> <<int_from_bool(an.animated)>>,
     k |-> array_from_keyframes(an.animated, an.keyframes)]

Animated_default_Mut == [animated |-> FALSE, keyframes |-> <<>>]

\* impl Default for Animated<T>
Animated_default == [animated |-> FALSE, keyframes |-> <<KeyFrame_default>>]

\* The animated properties of the source.
AnimatedSrc ==
    [a : Opt(0..2),
     k : {PlainK(v) : v \in Vals}
         \cup {ListK(ks) : ks \in SeqsOf(KeyFrameSrc, 0, MaxLen)}]

(***************************************************************************)
(* Enumerated option fields.                                               *)
(***************************************************************************)
\* A JSON scalar: an integer or a string.
JInt(n) == [ty |-> "int", n |-> n, s |-> ""]
JStr(s) == [ty |-> "str", n |-> 0, s |-> s]

\* u8::MAX, the width of every #[repr(u8)] enumeration.
U8Max == 255

\* Integers around the limits of u8.
WideInts == {0 - 1, U8Max, U8Max + 1}

JScalars ==
    {JInt(n) : n \in Ints \cup WideInts} \cup {JStr(s) : s \in {"d", "g", "o", "x"}}

\* #[repr(u8)] discriminant tables.
PolyStarTypeRepr == (1 :> "PolyStarType::Star") @@ (2 :> "PolyStarType::Polygon")

FillRuleRepr == (1 :> "FillRule::NonZero") @@ (2 :> "FillRule::EvenOdd")

LineCapRepr_Mut == (1 :> "LineCap::Butt") @@ (2 :> "LineCap::Round")

LineCapRepr ==
    (1 :> "LineCap::Butt") @@ (2 :> "LineCap::Round") @@ (3 :> "LineCap::Square")

LineJoinRepr ==
    (1 :> "LineJoin::Miter") @@ (2 :> "LineJoin::Round") @@ (3 :> "LineJoin::Bevel")

GradientTypeRepr == (1 :> "GradientType::Linear") @@ (2 :> "GradientType::Radial")

CompositeRepr == (1 :> "Composite::Above") @@ (2 :> "Composite::Below")

TrimMultipleShapeRepr ==
    (1 :> "TrimMultipleShape::Individually")
    @@ (2 :> "TrimMultipleShape::Simultaneously")

ShapeDirectionRepr ==
    (1 :> "ShapeDirection::Clockwise") @@ (2 :> "ShapeDirection::CounterClockwise")

\* StrokeDashType derives Deserialize with string renames.
StrokeDashTypeNames ==
    ("d" :> "StrokeDashType::Dash") @@ ("g" :> "StrokeDashType::Gap")
    @@ ("o" :> "StrokeDashType::Offset")

\* impl Default for FillRule / ShapeDirection
FillRule_default == "FillRule::NonZero"
ShapeDirection_default == "ShapeDirection::Clockwise"

\* serde_repr::Deserialize_repr: read an integer, look it up in the table.
Deserialize_repr(table, j) ==
    IF j.ty # "int" \/ j.n \notin 0..U8Max THEN Err("schema")
    ELSE IF j.n \in DOMAIN table THEN Ok(table[j.n])
    ELSE Err("unknown_discriminant")

\* MergeMode: its one variant, discriminant 1, marked #[serde(other)].
MergeModeRepr == (1 :> "MergeMode::Unsupported")

\* FontPathOrigin
FontPathOriginRepr ==
    (0 :> "FontPathOrigin::Local") @@ (1 :> "FontPathOrigin::CssUrl")
    @@ (2 :> "FontPathOrigin::ScriptUrl") @@ (3 :> "FontPathOrigin::FontUrl")

MergeModeDecode_Mut(j) == Deserialize_repr(MergeModeRepr, j)

\* Deserialize_repr of an enumeration with a #[serde(other)] variant: read
\* a u8; a discriminant of no variant gives the `other` variant.
MergeModeDecode(j) ==
    IF j.ty # "int" \/ j.n \notin 0..U8Max THEN Err("schema")
    ELSE IF j.n \in DOMAIN MergeModeRepr THEN Ok(MergeModeRepr[j.n])
    ELSE Ok("MergeMode::Unsupported")

\* serde_repr::Serialize_repr: the discriminant of the enumerant.
Serialize_repr(table, e) == JInt(CHOOSE n \in DOMAIN table : table[n] = e)

\* serde's derived Deserialize of a unit-variant enum: read a string, look
\* up the variant name.
StrokeDashTypeDecode(j) ==
    IF j.ty # "str" THEN Err("schema")
    ELSE IF j.s \in DOMAIN StrokeDashTypeNames THEN Ok(StrokeDashTypeNames[j.s])
    ELSE Err("unknown_discriminant")

OptionFields ==
    {"fill_rule", "line_cap", "line_join", "gradient_ty", "composite",
     "multiple_shape", "direction", "star_type", "dash_ty"}

\* The decoder of each enumerated option field, by the field's type.
OptionDecode(f, j) ==
    CASE f = "fill_rule" -> Deserialize_repr(FillRuleRepr, j)
      [] f = "line_cap" -> Deserialize_repr(LineCapRepr, j)
      [] f = "line_join" -> Deserialize_repr(LineJoinRepr, j)
      [] f = "gradient_ty" -> Deserialize_repr(GradientTypeRepr, j)
      [] f = "composite" -> Deserialize_repr(CompositeRepr, j)
      [] f = "multiple_shape" -> Deserialize_repr(TrimMultipleShapeRepr, j)
      [] f = "direction" -> Deserialize_repr(ShapeDirectionRepr, j)
      [] f = "star_type" -> Deserialize_repr(PolyStarTypeRepr, j)
      [] f = "dash_ty" -> StrokeDashTypeDecode(j)

(***************************************************************************)
(* Shape and ShapeLayer                                                    *)
(***************************************************************************)
ShapeTag_Mut ==
    ("rc" :> "Rectangle") @@ ("el" :> "Rectangle") @@ ("sr" :> "PolyStar")
    @@ ("sh" :> "Path") @@ ("fl" :> "Fill") @@ ("st" :> "Stroke")
    @@ ("gf" :> "GradientFill") @@ ("gs" :> "GradientStroke")
    @@ ("gr" :> "Group") @@ ("tr" :> "Transform") @@ ("rp" :> "Repeater")
    @@ ("tm" :> "Trim") @@ ("rd" :> "RoundedCorners") @@ ("pb" :> "PuckerBloat")
    @@ ("tw" :> "Twist") @@ ("mm" :> "Merge") @@ ("op" :> "OffsetPath")
    @@ ("zz" :> "ZigZag")

\* #[serde(tag = "ty")] enum Shape: the rename of each variant.
ShapeTag ==
    ("rc" :> "Rectangle") @@ ("el" :> "Ellipse") @@ ("sr" :> "PolyStar")
    @@ ("sh" :> "Path") @@ ("fl" :> "Fill") @@ ("st" :> "Stroke")
    @@ ("gf" :> "GradientFill") @@ ("gs" :> "GradientStroke")
    @@ ("gr" :> "Group") @@ ("tr" :> "Transform") @@ ("rp" :> "Repeater")
    @@ ("tm" :> "Trim") @@ ("rd" :> "RoundedCorners") @@ ("pb" :> "PuckerBloat")
    @@ ("tw" :> "Twist") @@ ("mm" :> "Merge") @@ ("op" :> "OffsetPath")
    @@ ("zz" :> "ZigZag")

\* A field with #[serde(default)]: the default when the key is absent.
FieldOrDefault(table, dflt, key) ==
    IF key = <<>> THEN Ok(dflt) ELSE Deserialize_repr(table, key[1])

\* A field without a default: a missing key is an error.
FieldRequired(table, key) ==
    IF key = <<>> THEN Err("schema") ELSE Deserialize_repr(table, key[1])

\* Fill::fill_rule: #[serde(rename = "r", default)]
Fill_fill_rule(key) == FieldOrDefault(FillRuleRepr, FillRule_default, key)

\* Shape::GradientFill::fill_rule: #[serde(rename = "r")]
GradientFill_fill_rule(key) == FieldRequired(FillRuleRepr, key)

\* Rectangle::direction, Ellipse::direction, PolyStar::direction:
\* #[serde(rename = "d", default)]
Rectangle_direction(key) ==
    FieldOrDefault(ShapeDirectionRepr, ShapeDirection_default, key)

Ellipse_direction(key) ==
    FieldOrDefault(ShapeDirectionRepr, ShapeDirection_default, key)

PolyStar_direction(key) ==
    FieldOrDefault(ShapeDirectionRepr, ShapeDirection_default, key)

\* Shape::Merge::mode: #[serde(rename = "mm")]
Merge_mode(key) == IF key = <<>> THEN Err("schema") ELSE MergeModeDecode(key[1])

\* The variants that carry a fill rule or a shape direction.
RuleVariants == {"Fill", "GradientFill"}
DirectionVariants == {"Rectangle", "Ellipse", "PolyStar"}

\* The fill-rule / direction field of a variant (`r` or `d` in the source).
ShapeOptionDecode(variant, key) ==
    CASE variant = "Fill" -> Fill_fill_rule(key)
      [] variant = "GradientFill" -> GradientFill_fill_rule(key)
      [] variant = "Rectangle" -> Rectangle_direction(key)
      [] variant = "Ellipse" -> Ellipse_direction(key)
      [] variant = "PolyStar" -> PolyStar_direction(key)
      [] variant = "Merge" -> Merge_mode(key)
      [] OTHER -> Ok("none")

\* A shape record of the source: the discriminant `ty`, the fill-rule or
\* direction key of the variants that have one (opt), and the first
\* violation among the record's other members, if any (rest).
ShapeSrc ==
    [ty : Opt(DOMAIN ShapeTag \cup {"xx"}),
     opt : Opt(JScalars),
     rest : Opt({"schema", "malformed_keyframes"})]

\* #[derive(Deserialize)] of the internally tagged enum Shape: the tag is
\* read first and selects the variant, whose members are then decoded.
ShapeDecode(src) ==
    IF src.ty = <<>> THEN Err("schema")
    ELSE IF src.ty[1] \notin DOMAIN ShapeTag THEN Err("unknown_discriminant")
    ELSE LET variant == ShapeTag[src.ty[1]]
             o == ShapeOptionDecode(variant, src.opt)
         IN IF src.rest # <<>> THEN Err(src.rest[1])
            ELSE IF ~o.ok THEN Err(o.err)
            ELSE Ok([variant |-> variant, option |-> o.val])

\* #[derive(Serialize)] of Shape: the variant's tag and members.
ShapeTagOf(variant) == CHOOSE t \in DOMAIN ShapeTag : ShapeTag[t] = variant

ShapeEncode(shape) ==
    [ty |-> <<ShapeTagOf(shape.variant)>>,
     opt |-> IF shape.variant \in RuleVariants
               THEN <<Serialize_repr(FillRuleRepr, shape.option)>>
             ELSE IF shape.variant \in DirectionVariants
               THEN <<Serialize_repr(ShapeDirectionRepr, shape.option)>>
             ELSE IF shape.variant = "Merge"
               THEN <<Serialize_repr(MergeModeRepr, shape.option)>>
             ELSE <<>>,
     rest |-> <<>>]

\* #[derive(Deserialize)] of ShapeLayer: `hd` (default false), id skipped
\* (default 0), the shape flattened into the same record.
ShapeLayerDecode(src) ==
    LET sh == ShapeDecode(src.shape)
    IN IF ~sh.ok THEN Err(sh.err)
       ELSE Ok([hidden |-> IF src.hd = <<>> THEN FALSE ELSE src.hd[1],
                id |-> 0,
                shape |-> sh.val])

\* #[derive(Serialize)] of ShapeLayer: id is skipped.
ShapeLayerEncode(sl) == [hd |-> <<sl.hidden>>, shape |-> ShapeEncode(sl.shape)]

(***************************************************************************)
(* Transform                                                               *)
(***************************************************************************)
\* default = "default_number_100"
default_number_100 == [animated |-> FALSE, keyframes |-> <<KeyFrame_from_value(100)>>]

\* A member that holds an animated property, with its default.
AnimatedOrDefault(key, dflt) == IF key = <<>> THEN Ok(dflt) ELSE AnimatedDecode(key[1])

\* #[derive(Deserialize)] of Transform, for the members `r` (rotation,
\* default) and `o` (opacity, default 100); auto_orient is skipped.  The
\* members a, p, s, sk, sa decode as `r` does.
TransformDecode(src) ==
    LET r == AnimatedOrDefault(src.r, Animated_default)
        o == AnimatedOrDefault(src.o, default_number_100)
    IN IF ~r.ok THEN Err(r.err)
       ELSE IF ~o.ok THEN Err(o.err)
       ELSE Ok([rotation |-> r.val, opacity |-> o.val, auto_orient |-> FALSE])

TransformEncode_Mut(tr) == [r |-> <<AnimatedEncode(tr.rotation)>>, o |-> <<>>]

\* #[derive(Serialize)] of Transform: auto_orient is skipped.
TransformEncode(tr) ==
    [r |-> <<AnimatedEncode(tr.rotation)>>, o |-> <<AnimatedEncode(tr.opacity)>>]

(***************************************************************************)
(* Layer and LayerContent                                                  *)
(***************************************************************************)
\* enum LayerContent
LayerContentVariants ==
    {"Precomposition", "SolidColor", "Image", "Empty", "Shape", "Text", "Audio"}

\* The distinguishing keys of a layer record: which are present.
ContentKeys ==
    [refId : BOOLEAN, color : BOOLEAN, width : BOOLEAN, height : BOOLEAN,
     shapes : BOOLEAN]

NoContentKeys ==
    [refId |-> FALSE, color |-> FALSE, width |-> FALSE, height |-> FALSE,
     shapes |-> FALSE]

\* The ordered predicate checks of the content inference.
ContentOrder == <<"Precomposition", "SolidColor", "Shape", "Empty">>

ContentMatches_Mut(variant, keys) ==
    CASE variant = "Precomposition" -> keys.refId
      [] variant = "SolidColor" -> keys.color /\ keys.width /\ keys.height
      [] variant = "Shape" -> keys.shapes
      [] variant = "Empty" -> keys = NoContentKeys
      [] OTHER -> FALSE

ContentMatches(variant, keys) ==
    CASE variant = "Precomposition" -> keys.refId
      [] variant = "SolidColor" -> keys.color /\ keys.width /\ keys.height
      [] variant = "Shape" -> keys.shapes
      [] variant = "Empty" -> TRUE
      [] OTHER -> FALSE

\* The variants the inference selects: each check that matches with no
\* earlier check matching.
ContentSelected(keys) ==
    {ContentOrder[i] : i \in
        {i \in DOMAIN ContentOrder :
            /\ ContentMatches(ContentOrder[i], keys)
            /\ \A j \in 1..(i - 1) : ~ContentMatches(ContentOrder[j], keys)}}

\* impl Deserialize for LayerContent
LayerContentDecode(keys) ==
    LET sel == ContentSelected(keys)
    IN IF Cardinality(sel) = 1 THEN Ok(CHOOSE v \in sel : TRUE)
       ELSE Err("unknown_discriminant")

\* impl Serialize for LayerContent: the keys of the variant's family.
LayerContentEncode(variant) ==
    [NoContentKeys EXCEPT
       !.refId = (variant = "Precomposition"),
       !.color = (variant = "SolidColor"),
       !.width = (variant = "SolidColor"),
       !.height = (variant = "SolidColor"),
       !.shapes = (variant = "Shape")]

Layer_is_3d_Mut(ddd) == IF ddd = <<>> THEN FALSE ELSE ddd[1] = 1

\* Layer::is_3d: deserialize_with = "bool_from_int", rename = "ddd", default
Layer_is_3d(ddd) == IF ddd = <<>> THEN FALSE ELSE bool_from_int(ddd[1])

\* Layer::auto_orient: rename = "ao", deserialize_with = "bool_from_int", default
Layer_auto_orient(ao) == IF ao = <<>> THEN FALSE ELSE bool_from_int(ao[1])

\* #[derive(Deserialize)] of Layer: ip, op, st are required; ddd, hd, ind,
\* ao, ks have defaults; id is skipped (default 0); the content is
\* flattened into the same record.
LayerDecode(src) ==
    LET tr == IF src.ks = <<>> THEN Ok(<<>>) ELSE TransformDecode(src.ks[1])
        content == LayerContentDecode(src.keys)
    IN IF src.ip = <<>> \/ src.op = <<>> \/ src.st = <<>> THEN Err("schema")
       ELSE IF ~tr.ok THEN Err(tr.err)
       ELSE IF ~content.ok THEN Err(content.err)
       ELSE Ok([is_3d |-> Layer_is_3d(src.ddd),
                hidden |-> IF src.hd = <<>> THEN FALSE ELSE src.hd[1],
                index |-> src.ind,
                id |-> 0,
                auto_orient |-> Layer_auto_orient(src.ao),
                start_frame |-> src.ip[1],
                end_frame |-> src.op[1],
                start_time |-> src.st[1],
                transform |-> IF src.ks = <<>> THEN <<>> ELSE <<tr.val>>,
                content |-> content.val])

\* #[derive(Serialize)] of Layer: id is skipped; is_3d and auto_orient go
\* through int_from_bool.
LayerEncode(ly) ==
    [ddd |-> <<int_from_bool(ly.is_3d)>>,
     hd |-> <<ly.hidden>>,
     ind |-> ly.index,
     ao |-> <<int_from_bool(ly.auto_orient)>>,
     ip |-> <<ly.start_frame>>,
     op |-> <<ly.end_frame>>,
     st |-> <<ly.start_time>>,
     ks |-> IF ly.transform = <<>> THEN <<>> ELSE <<TransformEncode(ly.transform[1])>>,
     keys |-> LayerContentEncode(ly.content)]

(***************************************************************************)
(* Inputs.                                                                 *)
(***************************************************************************)
\* A few animated properties for a transform's members: a constant, two
\* keyframes, and a malformed one.
SmallAnimatedSrc ==
    {[a |-> <<0>>, k |-> PlainK(1)],
     [a |-> <<1>>, k |-> ListK(<<[s |-> <<1>>, t |-> <<0>>], [s |-> <<0>>, t |-> <<1>>]>>)],
     [a |-> <<1>>, k |-> ListK(<<>>)]}

TransformSrc == [r : Opt(SmallAnimatedSrc), o : Opt(SmallAnimatedSrc)]

BaseLayerSrc ==
    [ddd |-> <<>>, hd |-> <<>>, ind |-> <<>>, ao |-> <<>>,
     ip |-> <<0>>, op |-> <<1>>, st |-> <<0>>, ks |-> <<>>, keys |-> NoContentKeys]

\* The layer records of the source: the base record with its flags, its
\* timing, its transform or its content keys varied.
LayerSrc ==
    {[BaseLayerSrc EXCEPT !.ddd = d, !.ao = a, !.hd = h, !.ind = i] :
        d \in Opt(Ints), a \in Opt(Ints), h \in Opt(BOOLEAN), i \in Opt(Ids)}
    \cup {[BaseLayerSrc EXCEPT !.ip = i, !.op = o, !.st = t] :
        i \in Opt(Frames), o \in Opt(Frames), t \in Opt(Frames)}
    \cup {[BaseLayerSrc EXCEPT !.ks = k] : k \in Opt(TransformSrc)}
    \cup {[BaseLayerSrc EXCEPT !.keys = k, !.ddd = d] :
        k \in ContentKeys, d \in Opt({1})}

\* The start of a keyframe: its value and its frame.
KeyFrameStarts == [start_value : Vals, start_frame : Frames]

\* Keyframes that meet the invariant of an animated Animated<T>: every
\* keyframe but the last ends where its successor starts, the last has
\* default ends.
WithDerivedEnds(starts) ==
    [i \in 1..Len(starts) |->
        [start_value |-> starts[i].start_value,
         end_value |-> IF i < Len(starts) THEN starts[i + 1].start_value ELSE DefaultT,
         start_frame |-> starts[i].start_frame,
         end_frame |-> IF i < Len(starts) THEN starts[i + 1].start_frame ELSE 0]]

\* The representable Animated values: a constant (one keyframe holding it
\* as start and end, zero frames) or a non-empty keyframe list.
AnimatedVals ==
    {[animated |-> FALSE,
      keyframes |-> <<[start_value |-> v, end_value |-> v,
                       start_frame |-> 0, end_frame |-> 0]>>] : v \in Vals}
    \cup {[animated |-> TRUE, keyframes |-> WithDerivedEnds(starts)] :
            starts \in SeqsOf(KeyFrameStarts, 1, MaxLen)}

SmallAnimatedVals ==
    {Animated_default,
     [animated |-> FALSE, keyframes |-> <<KeyFrame_from_value(1)>>]}

TransformVals ==
    [rotation : SmallAnimatedVals, opacity : SmallAnimatedVals, auto_orient : BOOLEAN]

\* The representable layers (content of the four families that have keys).
LayerVals ==
    [is_3d : BOOLEAN, hidden : BOOLEAN, index : Opt(Ids), id : Ids,
     auto_orient : BOOLEAN, start_frame : Frames, end_frame : {MaxFrame},
     start_time : {0}, transform : Opt(TransformVals),
     content : {"Precomposition", "SolidColor", "Shape", "Empty"}]

ShapeVals ==
    {[variant |-> v, option |-> "none"] :
        v \in {ShapeTag[t] : t \in DOMAIN ShapeTag}
                 \ (RuleVariants \cup DirectionVariants \cup {"Merge"})}
    \cup {[variant |-> "Merge", option |-> "MergeMode::Unsupported"]}
    \cup [variant : RuleVariants, option : {FillRuleRepr[n] : n \in DOMAIN FillRuleRepr}]
    \cup [variant : DirectionVariants,
          option : {ShapeDirectionRepr[n] : n \in DOMAIN ShapeDirectionRepr}]

ShapeLayerVals == [hidden : BOOLEAN, id : Ids, shape : ShapeVals]

(***************************************************************************)
(* Model::from_reader                                                      *)
(***************************************************************************)
\* The reader's state: where it is (off, reading, failed, complete), the
\* nesting depth (0: the layers array, 1: a layer's shapes, 2 and more: a
\* group's items), the nodes built into the document so far, the nodes
\* consumed from the input, and the violations met.
NoRd == [st |-> "off", depth |-> 0, built |-> 0, consumed |-> 0, faults |-> <<>>]

\* The violations a node (a layer or a shape record) can hold.
NodeFaults == {"schema", "unknown_discriminant", "malformed_keyframes", "parse"}

OnNode_Mut(r, fault, opens) ==
    IF fault # <<>>
    THEN [r EXCEPT !.consumed = @ + 1, !.faults = Append(@, fault[1])]
    ELSE [r EXCEPT !.consumed = @ + 1, !.built = @ + 1,
                   !.depth = IF opens THEN @ + 1 ELSE @]

\* One node decoded: a violation ends the decode of the whole document
\* (the error propagates through every enclosing deserializer); a valid
\* node is built into the document.
OnNode(r, fault, opens) ==
    IF fault # <<>>
    THEN [r EXCEPT !.st = "failed", !.consumed = @ + 1,
                   !.faults = Append(@, fault[1])]
    ELSE [r EXCEPT !.consumed = @ + 1, !.built = @ + 1,
                   !.depth = IF opens THEN @ + 1 ELSE @]

\* The end of the input: trailing garbage is a parse error.
OnEnd(r, fault) ==
    IF fault # <<>>
    THEN [r EXCEPT !.st = "failed", !.faults = Append(@, fault[1])]
    ELSE [r EXCEPT !.st = "complete"]

\* Result<Model, serde_json::Error>
ReaderResult(r) ==
    IF r.st = "failed" THEN Err(r.faults[1]) ELSE Ok([nodes |-> r.built])

(***************************************************************************)
(* The caller.                                                             *)
(***************************************************************************)
(***************************************************************************)
(* The frame capture of the renderer.                                      *)
(***************************************************************************)
\* The frames each thread runs.
MaxCaptureFrames == 2

\* An Event with the one listener the driver may hold: whether it is
\* registered, and whether it has been notified.
NoListener == [listening |-> FALSE, notified |-> FALSE]

\* Event::listen: a new listener, registered and not yet notified.
listen(ev) == [listening |-> TRUE, notified |-> FALSE]

notify_Mut(ev) == ev

\* Event::notify(u32::MAX): every listener registered now is notified; a
\* listener registered later is not.
notify(ev) == [ev EXCEPT !.notified = ev.listening \/ @]

\* ImageCopier::new: the buffer is created unmapped, the flag true.
ImageCopier_new ==
    /\ unmapped = TRUE
    /\ buffer = "unmapped"
    /\ unmap_event = NoListener
    /\ dpc = "idle"
    /\ rpc = "idle"
    /\ submitted = [n |-> 0, unmapped |-> TRUE, buffer |-> "unmapped"]
    /\ rframe = 0

Init ==
    /\ pc = "idle"
    /\ op = "none"
    /\ arg = <<>>
    /\ ret = <<>>
    /\ rd = NoRd
    /\ ImageCopier_new

Call(name, input, output) ==
    /\ pc = "idle"
    /\ pc' = "done"
    /\ op' = name
    /\ arg' = input
    /\ ret' = output
    /\ UNCHANGED rd
    /\ UNCHANGED cvars

DecodeAnimated ==
    /\ pc = "idle"
    /\ \E src \in AnimatedSrc : Call("decode_animated", src, AnimatedDecode(src))

DefaultAnimated ==
    /\ pc = "idle"
    /\ Call("default_animated", <<>>, Ok(Animated_default))

DecodeOption ==
    /\ pc = "idle"
    /\ \E f \in OptionFields, j \in JScalars :
         Call("decode_option", [field |-> f, j |-> j], OptionDecode(f, j))

DecodeShape ==
    /\ pc = "idle"
    /\ \E src \in ShapeSrc : Call("decode_shape", src, ShapeDecode(src))

\* ---- Bezier ----

\* The longest `v`, `i` or `o` array offered to the Bezier decoder.
MaxPath == 2

\* An element of a source coordinate array: a pair, or an array too short.
PathElems == {<<0, 1>>, <<0>>}

\* A source path: each of `c`, `v`, `i`, `o` absent or present.
BezierSrc ==
    [c : Opt(BOOLEAN),
     v : Opt(SeqsOf(PathElems, 0, MaxPath)),
     i : Opt(SeqsOf(PathElems, 0, MaxPath)),
     o : Opt(SeqsOf(PathElems, 0, MaxPath))]

\* An array of 2-element arrays to a list of 2D vectors, order and element
\* count preserved.
vec_from_array(a) ==
    IF \A k \in DOMAIN a : Len(a[k]) = 2
    THEN Ok([k \in DOMAIN a |-> [x |-> a[k][1], y |-> a[k][2]]])
    ELSE Err("schema")

\* A required member decoded with vec_from_array.
VecField(key) == IF key = <<>> THEN Err("schema") ELSE vec_from_array(key[1])

\* Bezier: Deserialize. Each of the three lists is decoded from its own
\* member; the struct has no check across members.
BezierDecode(src) ==
    LET v == VecField(src.v)
        i == VecField(src.i)
        o == VecField(src.o)
    IN IF ~v.ok \/ ~i.ok \/ ~o.ok THEN Err("schema")
       ELSE Ok([closed |-> IF src.c = <<>> THEN FALSE ELSE src.c[1],
                verticies |-> v.val,
                in_tangent |-> i.val,
                out_tangent |-> o.val])

DecodeBezier ==
    /\ pc = "idle"
    /\ \E src \in BezierSrc : Call("decode_bezier", src, BezierDecode(src))

\* ---- Model ----

\* The most layers of a source document, and its largest frame number and
\* frame rate.
MaxLayers == 2
MaxDocFrame == 30

DocFrames == 0..MaxDocFrame

\* The layer records of a source document: the base record with its `ind`
\* varied, and one that lacks the required `ip`.
DocLayerSrc ==
    {[BaseLayerSrc EXCEPT !.ind = i] : i \in Opt(Ids)}
    \cup {[BaseLayerSrc EXCEPT !.ip = <<>>]}

BaseModelSrc ==
    [ip |-> <<0>>, op |-> <<1>>, fr |-> <<1>>, w |-> <<100>>, h |-> <<100>>,
     layers |-> << <<>> >>]

\* The source documents: the base document with its layers, its timing or
\* its size varied. (nm, v, assets and fonts are optional and left out.)
ModelSrc ==
    {[BaseModelSrc EXCEPT !.layers = l] :
        l \in Opt(SeqsOf(DocLayerSrc, 0, MaxLayers))}
    \cup {[BaseModelSrc EXCEPT !.ip = i, !.op = o, !.fr = f] :
        i \in Opt(Frames), o \in Opt(DocFrames), f \in Opt(DocFrames)}
    \cup {[BaseModelSrc EXCEPT !.w = w, !.h = h] :
        w \in Opt({100}), h \in Opt({100})}

\* #[derive(Deserialize)] of Model: ip, op, fr, w, h and layers are
\* required; the layers are decoded in order, each by Layer's Deserialize,
\* and nothing is done to the decoded document afterwards.
ModelDecode(src) ==
    IF \E f \in {"ip", "op", "fr", "w", "h", "layers"} : src[f] = <<>>
    THEN Err("schema")
    ELSE LET ls == [k \in DOMAIN src.layers[1] |-> LayerDecode(src.layers[1][k])]
         IN IF \E k \in DOMAIN ls : ~ls[k].ok THEN Err("schema")
            ELSE Ok([start_frame |-> src.ip[1],
                     end_frame |-> src.op[1],
                     frame_rate |-> src.fr[1],
                     width |-> src.w[1],
                     height |-> src.h[1],
                     layers |-> [k \in DOMAIN ls |-> ls[k].val]])

DecodeModel ==
    /\ pc = "idle"
    /\ \E src \in ModelSrc : Call("decode_model", src, ModelDecode(src))

RECURSIVE GCD(_, _)
GCD(a, b) == IF b = 0 THEN a ELSE GCD(b, a % b)

Abs(n) == IF n < 0 THEN 0 - n ELSE n

\* The quotient n / d of two floats of integral value: a fraction in lowest
\* terms, an infinity when only d is zero, NaN when both are.
Quotient(n, d) ==
    IF d = 0
    THEN IF n = 0 THEN [kind |-> "nan", num |-> 0, den |-> 0]
         ELSE [kind |-> "inf", num |-> n \div Abs(n), den |-> 0]
    ELSE [kind |-> "finite",
          num |-> n \div GCD(Abs(n), d),
          den |-> d \div GCD(Abs(n), d)]

duration_Mut(self) == Quotient(self.end_frame, self.frame_rate)

\* Model::duration
duration(self) == Quotient(self.end_frame - self.start_frame, self.frame_rate)

\* The decoded documents.
ModelVals == {ModelDecode(src).val : src \in {d \in ModelSrc : ModelDecode(d).ok}}

\* A call of duration(&self): its value, and the document after the call.
Duration ==
    /\ pc = "idle"
    /\ \E self \in ModelVals :
         Call("duration", self, [value |-> duration(self), self |-> self])

\* Font::origin, decoded from a present key.
DecodeFontOrigin ==
    /\ pc = "idle"
    /\ \E j \in JScalars :
         Call("decode_font_origin", j, Deserialize_repr(FontPathOriginRepr, j))

DecodeLayer ==
    /\ pc = "idle"
    /\ \E src \in LayerSrc : Call("decode_layer", src, LayerDecode(src))

RoundTripAnimated ==
    /\ pc = "idle"
    /\ \E an \in AnimatedVals :
         Call("roundtrip_animated", an, AnimatedDecode(AnimatedEncode(an)))

RoundTripLayer ==
    /\ pc = "idle"
    /\ \E ly \in LayerVals :
         Call("roundtrip_layer", ly, LayerDecode(LayerEncode(ly)))

RoundTripShapeLayer ==
    /\ pc = "idle"
    /\ \E sl \in ShapeLayerVals :
         Call("roundtrip_shape_layer", sl, ShapeLayerDecode(ShapeLayerEncode(sl)))

\* from_reader begins: the document's own members (ip, op, fr, w, h, layers
\* are required) may already be in violation.
ReaderStart ==
    /\ pc = "idle"
    /\ \E fault \in Opt({"schema", "parse"}) :
         rd' = IF fault # <<>>
               THEN [NoRd EXCEPT !.st = "failed", !.faults = <<fault[1]>>]
               ELSE [NoRd EXCEPT !.st = "reading"]
    /\ pc' = "reading"
    /\ op' = "from_reader"
    /\ UNCHANGED <<arg, ret>>
    /\ UNCHANGED cvars

\* The next layer (depth 0) or shape (depth >= 1) record of the input; a
\* layer with shapes or a group opens a nested list.
ReadNode ==
    /\ pc = "reading"
    /\ rd.st = "reading"
    /\ rd.consumed < MaxNodes
    /\ \E fault \in Opt(NodeFaults), opens \in BOOLEAN :
         /\ opens => rd.depth <= MaxDepth
         /\ rd' = OnNode(rd, fault, opens)
    /\ UNCHANGED <<pc, op, arg, ret>>
    /\ UNCHANGED cvars

\* The end of a nested list.
ReadClose ==
    /\ pc = "reading"
    /\ rd.st = "reading"
    /\ rd.depth > 0
    /\ rd' = [rd EXCEPT !.depth = @ - 1]
    /\ UNCHANGED <<pc, op, arg, ret>>
    /\ UNCHANGED cvars

\* The end of the layers array and of the input.
ReadEnd ==
    /\ pc = "reading"
    /\ rd.st = "reading"
    /\ rd.depth = 0
    /\ \E fault \in Opt({"parse"}) : rd' = OnEnd(rd, fault)
    /\ UNCHANGED <<pc, op, arg, ret>>
    /\ UNCHANGED cvars

\* from_reader returns.
ReaderReturn ==
    /\ pc = "reading"
    /\ rd.st \in {"failed", "complete"}
    /\ pc' = "done"
    /\ arg' = [consumed |-> rd.consumed, faults |-> rd.faults]
    /\ ret' = ReaderResult(rd)
    /\ UNCHANGED <<op, rd>>
    /\ UNCHANGED cvars

Return ==
    /\ pc = "done"
    /\ pc' = "idle"
    /\ op' = "none"
    /\ arg' = <<>>
    /\ ret' = <<>>
    /\ rd' = NoRd
    /\ UNCHANGED cvars

Next ==
    \/ DecodeAnimated
    \/ DefaultAnimated
    \/ DecodeOption
    \/ DecodeShape
    \/ DecodeFontOrigin
    \/ DecodeBezier
    \/ DecodeModel
    \/ Duration
    \/ DecodeLayer
    \/ RoundTripAnimated
    \/ RoundTripLayer
    \/ RoundTripShapeLayer
    \/ ReaderStart
    \/ ReadNode
    \/ ReadClose
    \/ ReadEnd
    \/ ReaderReturn
    \/ Return

Spec == Init /\ [][Next]_vars

(***************************************************************************)
(* ImageCopyDriver::run on the render thread.                              *)
(***************************************************************************)
\* run reaches the copier: the copy is encoded.
DriverBegin ==
    /\ dpc = "idle"
    /\ submitted.n < MaxCaptureFrames
    /\ dpc' = "load"
    /\ UNCHANGED <<unmapped, buffer, unmap_event, rpc, submitted, rframe>>
    /\ UNCHANGED dvars

\* if !unmapped.load(SeqCst)
DriverLoad ==
    /\ dpc = "load"
    /\ dpc' = IF unmapped THEN "submit" ELSE "listen"
    /\ UNCHANGED <<unmapped, buffer, unmap_event, rpc, submitted, rframe>>
    /\ UNCHANGED dvars

\* let mut listener = unmap_event.listen();
DriverListen ==
    /\ dpc = "listen"
    /\ unmap_event' = listen(unmap_event)
    /\ dpc' = "recheck"
    /\ UNCHANGED <<unmapped, buffer, rpc, submitted, rframe>>
    /\ UNCHANGED dvars

\* if !unmapped.load(SeqCst), with the listener held; the listener is
\* dropped when the flag is found true.
DriverRecheck ==
    /\ dpc = "recheck"
    /\ dpc' = IF unmapped THEN "submit" ELSE "wait"
    /\ unmap_event' = IF unmapped THEN NoListener ELSE unmap_event
    /\ UNCHANGED <<unmapped, buffer, rpc, submitted, rframe>>
    /\ UNCHANGED dvars

\* listener.wait() returns once the listener has been notified.
DriverWait ==
    /\ dpc = "wait"
    /\ unmap_event.notified
    /\ unmap_event' = NoListener
    /\ dpc' = "submit"
    /\ UNCHANGED <<unmapped, buffer, rpc, submitted, rframe>>
    /\ UNCHANGED dvars

\* render_queue.submit(..): the flag and the buffer as they are when the
\* copy is submitted.
DriverSubmit ==
    /\ dpc = "submit"
    /\ submitted' = [n |-> submitted.n + 1, unmapped |-> unmapped, buffer |-> buffer]
    /\ dpc' = "idle"
    /\ UNCHANGED <<unmapped, buffer, unmap_event, rpc, rframe>>
    /\ UNCHANGED dvars

DriverNext ==
    \/ DriverBegin
    \/ DriverLoad
    \/ DriverListen
    \/ DriverRecheck
    \/ DriverWait
    \/ DriverSubmit

(***************************************************************************)
(* receive_images on the main thread.                                      *)
(***************************************************************************)
ReceiveBegin ==
    /\ rpc = "idle"
    /\ rframe < MaxCaptureFrames
    /\ rpc' = "store_false"
    /\ UNCHANGED <<unmapped, buffer, unmap_event, dpc, submitted, rframe>>
    /\ UNCHANGED dvars

\* unmapped.store(false, SeqCst)
ReceiveStoreFalse ==
    /\ rpc = "store_false"
    /\ unmapped' = FALSE
    /\ rpc' = "map_async"
    /\ UNCHANGED <<buffer, unmap_event, dpc, submitted, rframe>>
    /\ UNCHANGED dvars

\* buffer_slice.map_async(..)
ReceiveMapAsync ==
    /\ rpc = "map_async"
    /\ buffer' = "pending"
    /\ rpc' = "poll"
    /\ UNCHANGED <<unmapped, unmap_event, dpc, submitted, rframe>>
    /\ UNCHANGED dvars

\* render_device.poll(Wait); rx.await: the buffer is mapped.
ReceivePoll ==
    /\ rpc = "poll"
    /\ buffer' = "mapped"
    /\ rpc' = "read"
    /\ UNCHANGED <<unmapped, unmap_event, dpc, submitted, rframe>>
    /\ UNCHANGED dvars

\* image.data = buffer_slice.get_mapped_range().to_vec()
ReceiveRead ==
    /\ rpc = "read"
    /\ buffer = "mapped"
    /\ rpc' = "unmap"
    /\ UNCHANGED <<unmapped, buffer, unmap_event, dpc, submitted, rframe>>
    /\ UNCHANGED dvars

\* buffer.unmap()
ReceiveUnmap ==
    /\ rpc = "unmap"
    /\ buffer' = "unmapped"
    /\ rpc' = "store_true"
    /\ UNCHANGED <<unmapped, unmap_event, dpc, submitted, rframe>>
    /\ UNCHANGED dvars

\* unmapped.store(true, SeqCst)
ReceiveStoreTrue ==
    /\ rpc = "store_true"
    /\ unmapped' = TRUE
    /\ rpc' = "notify"
    /\ UNCHANGED <<buffer, unmap_event, dpc, submitted, rframe>>
    /\ UNCHANGED dvars

\* unmap_event.notify(u32::MAX)
ReceiveNotify ==
    /\ rpc = "notify"
    /\ unmap_event' = notify(unmap_event)
    /\ rpc' = "idle"
    /\ rframe' = rframe + 1
    /\ UNCHANGED <<unmapped, buffer, dpc, submitted>>
    /\ UNCHANGED dvars

\* receive_images from its first store to its notify.
ReceiveCycle ==
    \/ ReceiveStoreFalse
    \/ ReceiveMapAsync
    \/ ReceivePoll
    \/ ReceiveRead
    \/ ReceiveUnmap
    \/ ReceiveStoreTrue
    \/ ReceiveNotify

NextCapture ==
    \/ DriverNext
    \/ ReceiveBegin
    \/ ReceiveCycle

SpecCapture == Init /\ [][NextCapture]_vars

\* The render thread runs whenever it can, and receive_images, once begun,
\* runs to its end.
SpecCaptureFair ==
    /\ Init
    /\ [][NextCapture]_vars
    /\ WF_vars(DriverNext)
    /\ WF_vars(ReceiveCycle)

(***************************************************************************)
(* Properties.                                                             *)
(***************************************************************************)
Done(name) == pc = "done" /\ op = name

\* The source property is animated and its `k` is a list of n >= 1 keyframe
\* records, each carrying its start value.
AnimatedListInput ==
    /\ Done("decode_animated")
    /\ AnimatedFlagDecode(arg.a)
    /\ arg.k.kind = "list"
    /\ Len(arg.k.ks) >= 1
    /\ \A i \in 1..Len(arg.k.ks) : arg.k.ks[i].s # <<>>

\* C1: decoding an animated property whose `k` list has n >= 1 keyframe
\* records yields exactly n keyframes in source order; every start_value and
\* start_frame is the one given in the source (frame 0 when `t` is omitted);
\* keyframe i < n has the end_value and end_frame of keyframe i+1's start;
\* the last keyframe's end_value and end_frame stay at their defaults.
C1_KeyframeBackfill ==
    AnimatedListInput =>
        LET src == arg.k.ks
            n == Len(src)
        IN /\ ret.ok
           /\ ret.val.animated
           /\ Len(ret.val.keyframes) = n
           /\ \A i \in 1..n :
                LET kf == ret.val.keyframes[i]
                IN /\ kf.start_value = src[i].s[1]
                   /\ kf.start_frame = (IF src[i].t = <<>> THEN 0 ELSE src[i].t[1])
                   /\ i < n => /\ kf.end_value = src[i + 1].s[1]
                               /\ kf.end_frame =
                                    (IF src[i + 1].t = <<>> THEN 0 ELSE src[i + 1].t[1])
                   /\ i = n => /\ kf.end_value = 0
                               /\ kf.end_frame = 0

\* Three keyframes, the first two with a non-default end taken from their
\* successor, the last one starting at a non-zero frame.
C1_Witness ==
    /\ AnimatedListInput
    /\ ret.ok
    /\ Len(ret.val.keyframes) = 3
    /\ ret.val.keyframes[1].start_value = 0
    /\ ret.val.keyframes[1].end_value = 1
    /\ ret.val.keyframes[2].end_frame = 1
    /\ ret.val.keyframes[3].start_frame = 1

\* C2: a property whose animated flag is absent or 0 and whose `k` is a
\* single literal v decodes to animated = false with exactly one keyframe,
\* start_value = end_value = v and start_frame = end_frame = 0.
C2_NonAnimatedNormalization ==
    (Done("decode_animated") /\ arg.a \in {<<>>, <<0>>} /\ arg.k.kind = "plain") =>
        /\ ret.ok
        /\ ~ret.val.animated
        /\ ret.val.keyframes =
             <<[start_value |-> arg.k.v, end_value |-> arg.k.v,
                start_frame |-> 0, end_frame |-> 0]>>

C2_Witness ==
    /\ Done("decode_animated")
    /\ arg.a = <<0>>
    /\ arg.k = PlainK(1)
    /\ ret.ok
    /\ ret.val.keyframes[1].end_value = 1

\* C3: no decoded and no default-constructed Animated has an empty keyframe
\* sequence, and an animated property whose `k` list is empty fails with
\* the malformed-keyframes error.
C3_NonEmptyKeyframes ==
    /\ (pc = "done" /\ op \in {"decode_animated", "default_animated"} /\ ret.ok)
          => Len(ret.val.keyframes) >= 1
    /\ (Done("decode_animated") /\ AnimatedFlagDecode(arg.a) /\ arg.k = ListK(<<>>))
          => (~ret.ok /\ ret.err = "malformed_keyframes")

C3_Witness ==
    /\ Done("decode_animated")
    /\ arg.a = <<1>>
    /\ arg.k = ListK(<<>>)
    /\ ret = Err("malformed_keyframes")

\* The 18 documented discriminants.
DocumentedTags ==
    {"rc", "el", "sr", "sh", "fl", "st", "gf", "gs", "gr", "tr", "rp", "tm",
     "rd", "pb", "tw", "mm", "op", "zz"}

\* The variant the documentation gives each discriminant.
DocumentedVariant(ty) ==
    CASE ty = "rc" -> "Rectangle" [] ty = "el" -> "Ellipse"
      [] ty = "sr" -> "PolyStar" [] ty = "sh" -> "Path"
      [] ty = "fl" -> "Fill" [] ty = "st" -> "Stroke"
      [] ty = "gf" -> "GradientFill" [] ty = "gs" -> "GradientStroke"
      [] ty = "gr" -> "Group" [] ty = "tr" -> "Transform"
      [] ty = "rp" -> "Repeater" [] ty = "tm" -> "Trim"
      [] ty = "rd" -> "RoundedCorners" [] ty = "pb" -> "PuckerBloat"
      [] ty = "tw" -> "Twist" [] ty = "mm" -> "Merge"
      [] ty = "op" -> "OffsetPath" [] ty = "zz" -> "ZigZag"

\* The members of the record other than `ty` are all valid for the variant.
ValidMembers(src) ==
    /\ src.rest = <<>>
    /\ src.ty # <<>>
    /\ src.ty[1] \in DocumentedTags
    /\ ShapeOptionDecode(DocumentedVariant(src.ty[1]), src.opt).ok

\* C5: each of the 18 documented discriminants decodes to its own variant
\* (a record with valid members decodes, and whatever decodes has the
\* variant of its discriminant), the 18 variants are pairwise distinct, and
\* a discriminant outside the set fails with the unknown-discriminant error.
C5_ShapeTagClosure ==
    /\ DOMAIN ShapeTag = DocumentedTags
    /\ Cardinality({ShapeTag[t] : t \in DOMAIN ShapeTag}) = 18
    /\ Done("decode_shape") =>
         /\ (arg.ty # <<>> /\ arg.ty[1] \notin DocumentedTags)
               => (~ret.ok /\ ret.err = "unknown_discriminant")
         /\ ValidMembers(arg) => ret.ok
         /\ ret.ok => /\ arg.ty # <<>>
                      /\ arg.ty[1] \in DocumentedTags
                      /\ ret.val.variant = DocumentedVariant(arg.ty[1])

C5_Witness ==
    /\ Done("decode_shape")
    /\ arg.ty = <<"el">>
    /\ ret.ok
    /\ ret.val.variant = "Ellipse"

\* The unknown discriminant is refused.
C5_WitnessUnknown ==
    /\ Done("decode_shape")
    /\ arg.ty = <<"xx">>
    /\ ret = Err("unknown_discriminant")

\* The record is of a variant that carries a fill rule or a direction.
CarriesOption ==
    /\ Done("decode_shape")
    /\ arg.ty # <<>>
    /\ arg.ty[1] \in {"fl", "gf", "rc", "el", "sr"}
    /\ arg.rest = <<>>

\* C9: in solid fill, gradient fill, rectangle, ellipse and poly-star, an
\* absent fill rule decodes to NonZero and an absent direction to
\* Clockwise, and a present-but-invalid integer fails the decode.
C9_AbsentOptionDefaults ==
    CarriesOption =>
        /\ arg.opt = <<>> =>
             /\ ret.ok
             /\ ret.val.option =
                  (IF arg.ty[1] \in {"fl", "gf"} THEN "FillRule::NonZero"
                   ELSE "ShapeDirection::Clockwise")
        /\ (arg.opt # <<>> /\ arg.opt[1].ty = "int" /\ arg.opt[1].n \notin 1..2)
             => ~ret.ok

\* The range of integers each integer-coded enumeration accepts.
OptionRange(f) == IF f \in {"line_cap", "line_join"} THEN 1..3 ELSE 1..2

\* The enumerants of each option field's own enumeration.
OptionEnumerants(f) ==
    CASE f = "fill_rule" -> {"FillRule::NonZero", "FillRule::EvenOdd"}
      [] f = "line_cap" -> {"LineCap::Butt", "LineCap::Round", "LineCap::Square"}
      [] f = "line_join" -> {"LineJoin::Miter", "LineJoin::Round", "LineJoin::Bevel"}
      [] f = "gradient_ty" -> {"GradientType::Linear", "GradientType::Radial"}
      [] f = "composite" -> {"Composite::Above", "Composite::Below"}
      [] f = "multiple_shape" ->
            {"TrimMultipleShape::Individually", "TrimMultipleShape::Simultaneously"}
      [] f = "direction" ->
            {"ShapeDirection::Clockwise", "ShapeDirection::CounterClockwise"}
      [] f = "star_type" -> {"PolyStarType::Star", "PolyStarType::Polygon"}
      [] f = "dash_ty" ->
            {"StrokeDashType::Dash", "StrokeDashType::Gap", "StrokeDashType::Offset"}

\* An integer-coded option field decodes exactly the integers of its range,
\* to an enumerant of its own enumeration.
IntegerCoded(f) ==
    /\ ret.ok <=> (arg.j.ty = "int" /\ arg.j.n \in OptionRange(f))
    /\ ret.ok => ret.val \in OptionEnumerants(f)

\* C10 as stated: every enumerated option field, the stroke-dash role
\* included, decodes from a small positive integer through its own table,
\* and an integer outside the range fails.
C10_AllIntegerCoded == Done("decode_option") => IntegerCoded(arg.field)

\* C10 as amended: the eight fields other than the stroke-dash role decode
\* from a small positive integer through their own table and fail outside
\* its range; the stroke-dash role decodes from the strings "d", "g", "o"
\* through its own table and fails on anything else, every integer included.
C10_OptionTables ==
    Done("decode_option") =>
        IF arg.field # "dash_ty" THEN IntegerCoded(arg.field)
        ELSE /\ ret.ok <=> (arg.j.ty = "str" /\ arg.j.s \in {"d", "g", "o"})
             /\ ret.ok => ret.val \in OptionEnumerants("dash_ty")

\* A line cap decoded from 3, the top of its own range.
C10_Witness ==
    /\ Done("decode_option")
    /\ arg.field = "line_cap"
    /\ arg.j = JInt(3)
    /\ ret = Ok("LineCap::Square")

\* A stroke-dash role decoded from its string.
C10_WitnessDash ==
    /\ Done("decode_option")
    /\ arg.field = "dash_ty"
    /\ arg.j = JStr("g")
    /\ ret = Ok("StrokeDashType::Gap")

\* The members of the layer record other than the content keys are valid.
LayerMembersValid ==
    /\ Done("decode_layer")
    /\ arg.ip # <<>> /\ arg.op # <<>> /\ arg.st # <<>>
    /\ arg.ks # <<>> => TransformDecode(arg.ks[1]).ok

RoundTripOps == {"roundtrip_animated", "roundtrip_layer", "roundtrip_shape_layer"}

SkippedReset(name, d) ==
    CASE name = "roundtrip_layer" ->
           [d EXCEPT !.id = 0,
                     !.transform =
                        IF d.transform = <<>> THEN <<>>
                        ELSE <<[d.transform[1] EXCEPT !.auto_orient = FALSE]>>]
      [] name = "roundtrip_shape_layer" -> [d EXCEPT !.id = 0]
      [] OTHER -> d

C8_BooleanCoercion ==
    /\ (Done("decode_layer") /\ ret.ok) =>
         /\ arg.ddd # <<>> =>
              /\ ret.val.is_3d <=> arg.ddd[1] # 0
              /\ arg.ddd[1] \in {0, 1} => LayerEncode(ret.val).ddd = arg.ddd
         /\ arg.ao # <<>> =>
              /\ ret.val.auto_orient <=> arg.ao[1] # 0
              /\ arg.ao[1] \in {0, 1} => LayerEncode(ret.val).ao = arg.ao
    /\ (Done("decode_animated") /\ ret.ok /\ arg.a # <<>>) =>
         /\ ret.val.animated <=> arg.a[1] # 0
         /\ arg.a[1] \in {0, 1} => AnimatedEncode(ret.val).a = arg.a
    /\ Done("roundtrip_layer") =>
         /\ LayerEncode(arg).ddd = (IF arg.is_3d THEN <<1>> ELSE <<0>>)
         /\ LayerEncode(arg).ao = (IF arg.auto_orient THEN <<1>> ELSE <<0>>)
         /\ ret.ok
         /\ ret.val.is_3d = arg.is_3d
         /\ ret.val.auto_orient = arg.auto_orient
    /\ Done("roundtrip_animated") =>
         /\ AnimatedEncode(arg).a = (IF arg.animated THEN <<1>> ELSE <<0>>)
         /\ ret.ok
         /\ ret.val.animated = arg.animated

\* A layer whose ddd is 2 decodes to a 3D layer.
C8_Witness ==
    /\ Done("decode_layer")
    /\ arg.ddd = <<2>>
    /\ arg.ao = <<0>>
    /\ ret.ok
    /\ ret.val.is_3d
    /\ ~ret.val.auto_orient

\* A merge shape whose `mm` member is an integer, its other members valid.
MergeInput ==
    /\ Done("decode_shape")
    /\ arg.ty = <<"mm">>
    /\ arg.rest = <<>>
    /\ arg.opt # <<>>
    /\ arg.opt[1].ty = "int"

\* C11 as stated: a merge shape decodes to the Unsupported sentinel for
\* every integer value of its merge mode.
C11_MergeEveryInteger ==
    MergeInput => (ret.ok /\ ret.val.option = "MergeMode::Unsupported")

\* C11 as amended: a merge shape decodes to the Unsupported sentinel for
\* every merge-mode integer from 0 to 255 and fails for an integer outside
\* that range; in every other enumeration (the option fields and the font
\* path origin) an integer that is no discriminant fails the decode.
C11_MergeFallback ==
    /\ MergeInput =>
         /\ ret.ok <=> arg.opt[1].n \in 0..255
         /\ ret.ok => (ret.val.variant = "Merge"
                        /\ ret.val.option = "MergeMode::Unsupported")
    /\ (Done("decode_option") /\ arg.j.ty = "int"
          /\ (arg.field = "dash_ty" \/ arg.j.n \notin OptionRange(arg.field)))
         => ~ret.ok
    /\ (Done("decode_font_origin") /\ arg.ty = "int" /\ arg.n \notin 0..3)
         => ~ret.ok

\* A merge shape whose mode, 4, is no discriminant of MergeMode.
C11_Witness ==
    /\ MergeInput
    /\ arg.opt[1].n = 4
    /\ ret.ok
    /\ ret.val.option = "MergeMode::Unsupported"

\* C12: in every decoded Bezier the vertex, in-tangent and out-tangent
\* lists have the same length, so a source path whose `v`, `i` and `o`
\* arrays differ in length is never accepted.
C12_BezierEqualLengths ==
    (Done("decode_bezier") /\ ret.ok) =>
        /\ Len(ret.val.verticies) = Len(ret.val.in_tangent)
        /\ Len(ret.val.verticies) = Len(ret.val.out_tangent)
        /\ Len(arg.v[1]) = Len(arg.i[1])
        /\ Len(arg.v[1]) = Len(arg.o[1])

\* C13: after decoding, the layers of a document carry pairwise distinct
\* identifiers that follow decode order, whatever their `ind`.
C13_LayerIdsSequential ==
    (Done("decode_model") /\ ret.ok) =>
        \A i, j \in DOMAIN ret.val.layers :
            i < j => ret.val.layers[i].id < ret.val.layers[j].id

\* C14: for a frame rate above 0 duration returns
\* (end_frame - start_frame) / frame_rate and leaves the document as it
\* was; with ip = 0, op = 30, fr = 30 it returns exactly 1.
C14_Duration ==
    Done("duration") =>
        /\ ret.self = arg
        /\ arg.frame_rate > 0 =>
             /\ ret.value.kind = "finite"
             /\ ret.value.den > 0
             /\ ret.value.num * arg.frame_rate
                  = (arg.end_frame - arg.start_frame) * ret.value.den
        /\ (arg.start_frame = 0 /\ arg.end_frame = 30 /\ arg.frame_rate = 30) =>
             (ret.value.num = 1 /\ ret.value.den = 1)

\* The duration of the document of 30 frames at 30 frames a second.
C14_Witness ==
    /\ Done("duration")
    /\ arg.start_frame = 0 /\ arg.end_frame = 30 /\ arg.frame_rate = 30
    /\ arg.layers = <<>>
    /\ ret.value = [kind |-> "finite", num |-> 1, den |-> 1]
    /\ ret.self = arg

\* C15: in every interleaving of run and receive_images the driver submits
\* only while the buffer is unmapped: when the copy is submitted the flag
\* `unmapped` is true and no map is in progress.
C15_SubmitOnlyUnmapped ==
    submitted.n > 0 => (submitted.unmapped /\ submitted.buffer = "unmapped")

\* C16: a driver that has read `unmapped` = false twice and waits on its
\* listener is released and reaches submit, given that receive_images
\* completes its cycle.
C16_NoLostWakeup == (dpc = "wait") ~> (dpc = "submit")

\* The driver blocked on a listener that has not been notified yet.
C16_Witness ==
    /\ dpc = "wait"
    /\ unmap_event.listening
    /\ ~unmap_event.notified
    /\ ~unmapped

====
